---- MODULE Spec2Model ----
(***************************************************************************)
(* A model of src-tauri/src/templates/plan.py: a script that imports sys,  *)
(* defines main() as ten print statements, and calls main() when the file  *)
(* is run as the entry script.                                             *)
(*                                                                         *)
(* pc is the source line the process is about to execute.  The text on     *)
(* standard output is a sequence of string pieces whose concatenation is   *)
(* the byte stream; a TLA+ string literal cannot hold the grave accent,    *)
(* so that one character is the piece Backtick.                            *)
(***************************************************************************)
EXTENDS Integers, Sequences, FiniteSets

VARIABLES
  status,    \* "none": no process yet; "running"; "exited"
  name,      \* __name__ of the file: "__main__" (entry script) or "plan" (imported)
  argv,      \* sys.argv[1:] of the process
  pc,        \* source line about to be executed
  bindings,  \* names bound in the module's namespace so far
  calls,     \* number of calls of main() made by the process
  stdout,    \* pieces written to standard output by the process
  exitCode,  \* exit status of the process, NoStatus while it runs
  exc,       \* the exception being propagated in the process, "none" if there is none
  host,      \* what is outside the process: files, network traffic, inputs consumed
  history    \* one record for every process that has ended

vars == <<status, name, argv, pc, bindings, calls, stdout, exitCode, exc, host, history>>

(***************************************************************************)
(* Bounds of the model.                                                    *)
(***************************************************************************)
MaxRuns == 2     \* processes started one after the other
MaxArgs == 2     \* command-line arguments of one process

Args == {"--help"}

RECURSIVE SeqsUpTo(_, _)
SeqsUpTo(S, n) ==
  IF n = 0 THEN {<<>>}
  ELSE LET shorter == SeqsUpTo(S, n - 1)
       IN  shorter \cup {Append(s, a) : s \in shorter, a \in S}

ArgLists == SeqsUpTo(Args, MaxArgs)

Hosts == { [files |-> f, sent |-> <<>>, consumed |-> {}] : f \in {{}, {"plan.md"}} }

(***************************************************************************)
(* The source text.                                                        *)
(***************************************************************************)
Backtick == "U+0060"
Fence == <<Backtick, Backtick, Backtick>>
Newline == "\n"

ImportLine == 1
DefLine == 3
FirstPrint == 4
LastPrint == 13
GuardLine == 15
CallLine == 16
EndOfFile == 17
NoStatus == -1

\* The argument of the print statement on each line of main's body.
Literal(l) ==
  CASE l = 4  -> <<"# Project Plan">>
    [] l = 5  -> <<"Creating Gantt chart structure...">>
    [] l = 6  -> Fence \o <<"mermaid">>
    [] l = 7  -> <<"gantt">>
    [] l = 8  -> <<"    title Project Schedule">>
    [] l = 9  -> <<"    section Design">>
    [] l = 10 -> <<"    UI Mockups :a1, 2024-01-01, 30d">>
    [] l = 11 -> <<"    section Development">>
    [] l = 12 -> <<"    Backend API :after a1, 20d">>
    [] l = 13 -> Fence

\* A print that leaves out the terminator.
printNoEnd(out, text) == out \o text

\* print(text): the text, then the terminator end="\n".
print(out, text) == out \o text \o <<Newline>>

\* A body that returns before its last print statement.
AfterPrintEarlyReturn(l) == IF l >= LastPrint - 1 THEN EndOfFile ELSE l + 1

\* A body that lost the print statement of line 9.
AfterPrintSkip(l) == IF l = LastPrint THEN EndOfFile ELSE IF l = 8 THEN 10 ELSE l + 1

\* The line executed after the print statement on line l.
AfterPrint(l) == IF l = LastPrint THEN EndOfFile ELSE l + 1

\* A file that calls main() without the guard.
GuardTargetAlways(n) == CallLine

\* if __name__ == "__main__":
GuardTarget(n) == IF n = "__main__" THEN CallLine ELSE EndOfFile

Record(code) == [argv |-> argv, name |-> name, out |-> stdout, code |-> code, exc |-> exc]

\* The process is executing statements: no exception is being propagated.
Running == status = "running" /\ exc = "none"

(***************************************************************************)
(* The process.                                                            *)
(***************************************************************************)
Init ==
  /\ status = "none"
  /\ name = "__main__"
  /\ argv = <<>>
  /\ pc = ImportLine
  /\ bindings = {}
  /\ calls = 0
  /\ stdout = <<>>
  /\ exitCode = NoStatus
  /\ exc = "none"
  /\ host \in Hosts
  /\ history = <<>>

\* The interpreter starts on the file: as the entry script or as an import of
\* a host program that does nothing else.
Exec(n, a) ==
  /\ status # "running"
  /\ Len(history) < MaxRuns
  /\ status' = "running"
  /\ name' = n
  /\ argv' = a
  /\ pc' = ImportLine
  /\ bindings' = {}
  /\ calls' = 0
  /\ stdout' = <<>>
  /\ exitCode' = NoStatus
  /\ exc' = "none"
  /\ UNCHANGED <<host, history>>

\* import sys
ImportSys ==
  /\ Running /\ pc = ImportLine
  /\ bindings' = bindings \cup {"sys"}
  /\ pc' = DefLine
  /\ UNCHANGED <<status, name, argv, calls, stdout, exitCode, exc, host, history>>

\* def main():
DefMain ==
  /\ Running /\ pc = DefLine
  /\ bindings' = bindings \cup {"main"}
  /\ pc' = GuardLine
  /\ UNCHANGED <<status, name, argv, calls, stdout, exitCode, exc, host, history>>

\* if __name__ == "__main__":
Guard ==
  /\ Running /\ pc = GuardLine
  /\ pc' = GuardTarget(name)
  /\ UNCHANGED <<status, name, argv, bindings, calls, stdout, exitCode, exc, host, history>>

\*     main()
CallMain ==
  /\ Running /\ pc = CallLine
  /\ "main" \in bindings
  /\ calls' = calls + 1
  /\ pc' = FirstPrint
  /\ UNCHANGED <<status, name, argv, bindings, stdout, exitCode, exc, host, history>>

\* A body that also saves each line to the file plan.md.
PrintLineTee ==
  /\ Running /\ pc \in FirstPrint..LastPrint
  /\ stdout' = print(stdout, Literal(pc))
  /\ host' = [host EXCEPT !.files = @ \cup {"plan.md"}]
  /\ pc' = AfterPrint(pc)
  /\ UNCHANGED <<status, name, argv, bindings, calls, exitCode, exc, history>>

\* A body that skips the diagram when the file plan.md exists.
PrintLineBranch ==
  /\ Running /\ pc \in FirstPrint..LastPrint
  /\ stdout' = IF "plan.md" \in host.files /\ pc > FirstPrint + 1
                THEN stdout ELSE print(stdout, Literal(pc))
  /\ pc' = AfterPrint(pc)
  /\ UNCHANGED <<status, name, argv, bindings, calls, exitCode, exc, host, history>>

\* A body that writes only when no earlier process has ended.
PrintLineOnce ==
  /\ Running /\ pc \in FirstPrint..LastPrint
  /\ stdout' = IF history = <<>> THEN print(stdout, Literal(pc)) ELSE stdout
  /\ pc' = AfterPrint(pc)
  /\ UNCHANGED <<status, name, argv, bindings, calls, exitCode, exc, host, history>>

\* One print statement of main's body; after the last one main returns to
\* its caller, which is at the end of the file.
PrintLine ==
  /\ Running /\ pc \in FirstPrint..LastPrint
  /\ stdout' = print(stdout, Literal(pc))
  /\ pc' = AfterPrint(pc)
  /\ UNCHANGED <<status, name, argv, bindings, calls, exitCode, exc, host, history>>

\* An end of file that first waits for a line of standard input, which no
\* one sends.
ExitAwaitInput ==
  /\ Running /\ pc = EndOfFile
  /\ "stdin" \in host.consumed
  /\ status' = "exited"
  /\ exitCode' = 0
  /\ history' = Append(history, Record(0))
  /\ UNCHANGED <<name, argv, pc, bindings, calls, stdout, exc, host>>

\* An end of file that rejects command-line arguments with status 2.
ExitUsage ==
  /\ Running /\ pc = EndOfFile
  /\ status' = "exited"
  /\ exitCode' = IF argv = <<>> THEN 0 ELSE 2
  /\ history' = Append(history, Record(IF argv = <<>> THEN 0 ELSE 2))
  /\ UNCHANGED <<name, argv, pc, bindings, calls, stdout, exc, host>>

\* The end of the file is reached: the interpreter exits with status 0.
Exit ==
  /\ Running /\ pc = EndOfFile
  /\ status' = "exited"
  /\ exitCode' = 0
  /\ history' = Append(history, Record(0))
  /\ UNCHANGED <<name, argv, pc, bindings, calls, stdout, exc, host>>

\* The write of a print statement raises OSError: the statement writes
\* nothing and the exception starts to propagate from its line.
RaiseIO ==
  /\ Running /\ pc \in FirstPrint..LastPrint
  /\ exc' = "OSError"
  /\ UNCHANGED <<status, name, argv, pc, bindings, calls, stdout, exitCode, host, history>>

\* A body that catches the exception of a print and goes on with the next
\* statement.
UnhandledSwallow ==
  /\ status = "running" /\ exc # "none"
  /\ exc' = "none"
  /\ pc' = AfterPrint(pc)
  /\ UNCHANGED <<status, name, argv, bindings, calls, stdout, exitCode, host, history>>

\* Neither main nor the module level has a try statement: the exception
\* leaves both frames and the interpreter exits with status 1.
Unhandled ==
  /\ status = "running" /\ exc # "none"
  /\ status' = "exited"
  /\ exitCode' = 1
  /\ history' = Append(history, Record(1))
  /\ UNCHANGED <<name, argv, pc, bindings, calls, stdout, exc, host>>

Step == ImportSys \/ DefMain \/ Guard \/ CallMain \/ PrintLine \/ Exit

Next ==
  \/ \E n \in {"__main__", "plan"}, a \in ArgLists : Exec(n, a)
  \/ Step

\* Every write to standard output succeeds.
Spec == Init /\ [][Next]_vars

\* The interpreter runs a started process to its end.
FairSpec == Spec /\ WF_vars(Step)

NextFault == Next \/ RaiseIO \/ Unhandled

\* A write to standard output may fail.
SpecFault == Init /\ [][NextFault]_vars

(***************************************************************************)
(* The document of section 4.1 of the specification, line by line, and     *)
(* the operators the properties are stated with.                           *)
(***************************************************************************)
ExpectedLines ==
  << <<"# Project Plan">>,
     <<"Creating Gantt chart structure...">>,
     <<Backtick, Backtick, Backtick, "mermaid">>,
     <<"gantt">>,
     <<"    title Project Schedule">>,
     <<"    section Design">>,
     <<"    UI Mockups :a1, 2024-01-01, 30d">>,
     <<"    section Development">>,
     <<"    Backend API :after a1, 20d">>,
     <<Backtick, Backtick, Backtick>> >>

\* The text of a list of lines, each followed by a newline.
RECURSIVE Unlines(_)
Unlines(ls) ==
  IF ls = <<>> THEN <<>> ELSE Head(ls) \o <<Newline>> \o Unlines(Tail(ls))

Document == Unlines(ExpectedLines)

\* The first k lines of the document.
DocPrefix(k) == Unlines(SubSeq(ExpectedLines, 1, k))

\* The positions of the newlines of a text, and the number of lines it holds.
NewlinesOf(out) == {i \in DOMAIN out : out[i] = Newline}
LineCount(out) == Cardinality(NewlinesOf(out))

\* The position of the k-th newline of a text (0 for k = 0).
NthNewline(out, k) ==
  IF k = 0 THEN 0
  ELSE CHOOSE i \in NewlinesOf(out) : Cardinality({j \in NewlinesOf(out) : j <= i}) = k

\* The k-th line of a text, without its newline.
LineOf(out, k) == SubSeq(out, NthNewline(out, k - 1) + 1, NthNewline(out, k) - 1)

\* The text ends with a newline or is empty: it holds whole lines only.
WholeLines(out) == out = <<>> \/ out[Len(out)] = Newline

IsScript(r) == r.name = "__main__"
ScriptRuns == {i \in DOMAIN history : IsScript(history[i])}
EndedScript == status = "exited" /\ name = "__main__"

(***************************************************************************)
(* C1: a run of the entry script with no arguments that has ended wrote    *)
(* exactly the ten lines of the document, in order, each once and each     *)
(* terminated by a newline, and nothing else.                              *)
(***************************************************************************)
C1_ExactDocument ==
  (EndedScript /\ argv = <<>>) =>
    /\ stdout = Document
    /\ LineCount(stdout) = Len(ExpectedLines)
    /\ \A k \in 1..Len(ExpectedLines) : LineOf(stdout, k) = ExpectedLines[k]

C1_Witness ==
  EndedScript /\ argv = <<>> /\ exitCode = 0 /\ stdout = Document

(***************************************************************************)
(* C2: every run of the entry script that has ended wrote the same text    *)
(* as the first one, and a process at its first line has written nothing   *)
(* and bound nothing, whatever the earlier processes left.                 *)
(***************************************************************************)
C2_SameOutputEveryRun ==
  /\ \A n \in ScriptRuns :
       \A first \in ScriptRuns :
         (\A m \in ScriptRuns : first <= m) => history[n].out = history[first].out
  /\ (status = "running" /\ pc = ImportLine) =>
       (stdout = <<>> /\ bindings = {} /\ calls = 0 /\ exc = "none")

C2_Witness ==
  /\ Cardinality(ScriptRuns) >= 2
  /\ \A n \in ScriptRuns : history[n].out = Document

(***************************************************************************)
(* C3: a run of the entry script with any arguments has the output and     *)
(* the exit status of a run with no arguments.                             *)
(***************************************************************************)
C3_ArgumentsIgnored ==
  \A i \in ScriptRuns, j \in ScriptRuns :
    history[i].argv = <<>> =>
      (history[j].out = history[i].out /\ history[j].code = history[i].code)

C3_Witness ==
  \E i \in ScriptRuns, j \in ScriptRuns :
    /\ history[i].argv = <<>> /\ history[j].argv # <<>>
    /\ history[j].out = history[i].out /\ history[j].code = history[i].code

(***************************************************************************)
(* C4: when every write succeeds a started process always has a next       *)
(* statement to execute, never waits, and reaches its end; it ends with    *)
(* status 0, and the entry script ends only with all ten lines written.    *)
(***************************************************************************)
C4_TerminatesWithZero ==
  /\ [](status = "running" => ENABLED Step)
  /\ [](status = "running" => <>(status = "exited"))
  /\ [](status = "exited" => exitCode = 0)
  /\ [](EndedScript => LineCount(stdout) = Len(ExpectedLines))

C4_Witness ==
  EndedScript /\ exitCode = 0 /\ LineCount(stdout) = 10 /\ pc = EndOfFile

(***************************************************************************)
(* C5: no step of any process, failing or not, changes the files, sends    *)
(* anything to the network or consumes standard input, the environment     *)
(* variables or a file: what is outside the process stays as it was at     *)
(* the start.                                                              *)
(***************************************************************************)
C5_OnlyStdout ==
  /\ [](host.sent = <<>> /\ host.consumed = {})
  /\ [][host' = host]_vars

C5_Witness ==
  /\ EndedScript /\ stdout = Document
  /\ host.files = {} /\ host.sent = <<>> /\ host.consumed = {}

(***************************************************************************)
(* C6: the output of an ended run with no arguments starts with the title  *)
(* line, holds the opening fence once and the closing fence once, the      *)
(* closing fence is the last line, and every line of the diagram lies      *)
(* strictly between the two fences.                                        *)
(***************************************************************************)
DiagramLines == {ExpectedLines[k] : k \in 4..9}

C6_FencedDiagram ==
  (EndedScript /\ argv = <<>>) =>
    LET n      == LineCount(stdout)
        opens  == {k \in 1..n : LineOf(stdout, k) = <<Backtick, Backtick, Backtick, "mermaid">>}
        closes == {k \in 1..n : LineOf(stdout, k) = <<Backtick, Backtick, Backtick>>}
    IN  /\ WholeLines(stdout)
        /\ n >= 1 /\ LineOf(stdout, 1) = <<"# Project Plan">>
        /\ Cardinality(opens) = 1
        /\ closes = {n}
        /\ \A d \in DiagramLines : \E k \in 1..n : LineOf(stdout, k) = d
        /\ \A o \in opens, c \in closes, k \in 1..n :
             LineOf(stdout, k) \in DiagramLines => (o < k /\ k < c)

C6_Witness ==
  /\ EndedScript /\ argv = <<>>
  /\ LineOf(stdout, 3) = <<Backtick, Backtick, Backtick, "mermaid">>
  /\ LineOf(stdout, 10) = <<Backtick, Backtick, Backtick>>

(***************************************************************************)
(* C7: when the print statement of the k-th line raises, lines 1..k-1 and  *)
(* nothing else are on standard output, the only step the process takes    *)
(* is to end with a non-zero status, and it writes nothing more.           *)
(***************************************************************************)
C7_FaultNotHandled ==
  /\ [](exc # "none" =>
         (pc \in FirstPrint..LastPrint /\ stdout = DocPrefix(pc - FirstPrint)))
  /\ [](\A i \in DOMAIN history :
         history[i].exc # "none" =>
           (history[i].code # 0 /\ \E k \in 1..10 : history[i].out = DocPrefix(k - 1)))
  /\ [][(status = "running" /\ exc # "none") =>
          (status' = "exited" /\ exitCode' # 0 /\ stdout' = stdout /\ pc' = pc)]_vars

C7_Witness ==
  /\ status = "exited" /\ exc = "OSError" /\ exitCode = 1
  /\ pc = FirstPrint + 4 /\ stdout = DocPrefix(4)

(***************************************************************************)
(* C8: when every write succeeds, a step taken inside main is always the   *)
(* write of the line the process is at, followed by the next line of the   *)
(* body, whatever the arguments and the files: the lines written are       *)
(* determined by the position alone.                                       *)
(***************************************************************************)
C8_SinglePath ==
  /\ []((status = "running" /\ pc \in FirstPrint..LastPrint) =>
         (calls = 1 /\ stdout = DocPrefix(pc - FirstPrint)))
  /\ [][(status = "running" /\ pc \in FirstPrint..LastPrint) =>
          /\ stdout' = stdout \o ExpectedLines[pc - FirstPrint + 1] \o <<Newline>>
          /\ pc' = IF pc = LastPrint THEN EndOfFile ELSE pc + 1
          /\ UNCHANGED <<status, name, argv, calls, exitCode, host>>]_vars

C8_Witness ==
  /\ status = "running" /\ pc = FirstPrint + 5 /\ stdout = DocPrefix(5)
  /\ argv # <<>> /\ host.files # {}

(***************************************************************************)
(* C9: the text on standard output is always the first k whole lines of    *)
(* the document for some k in 0..10, also in a run cut short by a failed   *)
(* write; while a process runs the number of lines never decreases, and    *)
(* a step that writes adds exactly one line.                               *)
(***************************************************************************)
C9_PrefixOfDocument ==
  /\ [](WholeLines(stdout) /\ \E k \in 0..10 : stdout = DocPrefix(k))
  /\ [][status = "running" =>
          /\ LineCount(stdout') >= LineCount(stdout)
          /\ (stdout' # stdout \/ (pc' # pc /\ pc \in FirstPrint..LastPrint)) =>
               LineCount(stdout') = LineCount(stdout) + 1]_vars

C9_Witness ==
  status = "exited" /\ exc # "none" /\ stdout = DocPrefix(7) /\ LineCount(stdout) = 7

(***************************************************************************)
(* C10: text is on standard output only if main() was called; a process    *)
(* that loads the file as a module never calls main() and writes nothing;  *)
(* the entry script calls main() once.                                     *)
(***************************************************************************)
C10_OnlyMainEmits ==
  /\ stdout # <<>> => calls >= 1
  /\ calls <= 1
  /\ name # "__main__" => (calls = 0 /\ stdout = <<>>)
  /\ EndedScript => calls = 1
  /\ \A i \in DOMAIN history : ~IsScript(history[i]) => history[i].out = <<>>

C10_Witness ==
  /\ status = "exited" /\ name = "plan" /\ "main" \in bindings
  /\ calls = 0 /\ stdout = <<>> /\ exitCode = 0

====
